---- MODULE Spec2Model ----
(***************************************************************************)
(* A model of telegram_manager/main.py: the relative-time parser           *)
(* parse_relative_time_string and the fetch command that consumes it.      *)
(*                                                                         *)
(* Conventions.  A Python Optional is a sequence of length 0 or 1: None is *)
(* <<>> and a value v is <<v>>.  A str is a sequence of one-character      *)
(* strings.  A datetime is a record [y, mo, d, mi] in the proleptic        *)
(* Gregorian calendar with mi the minute of the day; seconds and           *)
(* microseconds are left out because no operation of the program changes   *)
(* them.  All datetimes are UTC unless they have been through Localize.    *)
(***************************************************************************)
EXTENDS Integers, Sequences, FiniteSets

VARIABLES
    pc,            \* position in the command: see the actions
    channel,       \* fetch argument <channel>
    min_id,        \* fetch option --min-id   (Optional int)
    limit,         \* fetch option --limit    (Optional int)
    since,         \* fetch option --since    (Optional str)
    verbose,       \* fetch option --verbose
    clock,         \* what datetime.now(timezone.utc) returns in this run
    tz,            \* the local zone's offset from UTC in minutes, once read
    since_date,    \* local since_date of fetch (Optional datetime)
    tg,            \* TRUE once TelegramManager() has been constructed
    found_min_id,  \* found_min_id[0] (Optional int)
    fetch_call,    \* the arguments tg.fetch_messages was invoked with
    delivered,     \* the callbacks the collaborator has made, in order
    out,           \* the lines printed to standard output, in order
    exc            \* the exception that ended the command (Optional)

vars == <<pc, channel, min_id, limit, since, verbose, clock, tz, since_date,
          tg, found_min_id, fetch_call, delivered, out, exc>>

None == <<>>

Some(v) == <<v>>

\* Python truthiness of an Optional str: None and "" are falsy.
Truthy(s) == s /= None /\ s[1] /= <<>>

-----------------------------------------------------------------------------
(* Bounds of the model. *)

\* longest --since string enumerated exhaustively over Alphabet
MaxLen == 4

\* most callbacks the collaborator makes in one fetch session
MaxDeliveries == 3

-----------------------------------------------------------------------------
(* datetime arithmetic, as the standard library computes it. *)

IsLeap(y) == y % 4 = 0 /\ (y % 100 /= 0 \/ y % 400 = 0)

DaysInMonth(y, m) ==
    IF m = 2 THEN (IF IsLeap(y) THEN 29 ELSE 28)
    ELSE IF m \in {4, 6, 9, 11} THEN 30 ELSE 31

DaysBeforeMonth(y, m) ==
    <<0, 31, 59, 90, 120, 151, 181, 212, 243, 273, 304, 334>>[m]
        + (IF m > 2 /\ IsLeap(y) THEN 1 ELSE 0)

DaysBeforeYear(y) ==
    (y - 1) * 365 + (y - 1) \div 4 - (y - 1) \div 100 + (y - 1) \div 400

\* date.toordinal(): 0001-01-01 is day 1
ToOrdinal(dt) == DaysBeforeYear(dt.y) + DaysBeforeMonth(dt.y, dt.mo) + dt.d

\* date.fromordinal(n), for n >= 1
FromOrdinal(n) ==
    LET n0   == n - 1
        n400 == n0 \div 146097
        r400 == n0 % 146097
        n100 == r400 \div 36524
        r100 == r400 % 36524
        n4   == r100 \div 1461
        r4   == r100 % 1461
        n1   == r4 \div 365
        r1   == r4 % 365
        year == n400 * 400 + 1 + n100 * 100 + n4 * 4 + n1
    IN  IF n1 = 4 \/ n100 = 4
        THEN [y |-> year - 1, mo |-> 12, d |-> 31]
        ELSE LET month == CHOOSE m \in 1..12 :
                              /\ DaysBeforeMonth(year, m) <= r1
                              /\ r1 < DaysBeforeMonth(year, m) + DaysInMonth(year, m)
             IN  [y |-> year, mo |-> month, d |-> r1 - DaysBeforeMonth(year, month) + 1]

NoDate == [y |-> 0, mo |-> 0, d |-> 0, mi |-> 0]

\* the result of an expression that may raise
Returns(v) == [raised |-> FALSE, exc |-> "", value |-> v]

Raises(e) == [raised |-> TRUE, exc |-> e, value |-> NoDate]

\* dt + timedelta(days, minutes), either sign; a result before
\* datetime.min raises OverflowError ("date value out of range").
PlusTimedelta(dt, days, minutes) ==
    LET t   == dt.mi + minutes
        ord == ToOrdinal(dt) + days + t \div 1440
    IN  IF ord < 1
        THEN Raises("OverflowError")
        ELSE LET date == FromOrdinal(ord)
             IN  Returns([y |-> date.y, mo |-> date.mo, d |-> date.d, mi |-> t % 1440])

\* A mutant of MinusMonths: a month as a fixed 30 days.
MinusMonthsFixed30(dt, n) == PlusTimedelta(dt, -(30 * n), 0)

\* dt - relativedelta(months=n): n is normalised to years and months, the
\* day is clamped to the length of the target month, the time of day is
\* kept; a target year before 1 raises ValueError in datetime.replace.
MinusMonths(dt, n) ==
    LET years  == n \div 12
        months == n % 12
        m0     == dt.mo - months
        year   == IF m0 < 1 THEN dt.y - years - 1 ELSE dt.y - years
        month  == IF m0 < 1 THEN m0 + 12 ELSE m0
    IN  IF year < 1
        THEN Raises("ValueError")
        ELSE LET dim == DaysInMonth(year, month)
                 day == IF dt.d < dim THEN dt.d ELSE dim
             IN  Returns([y |-> year, mo |-> month, d |-> day, mi |-> dt.mi])

\* datetime.astimezone(): the same instant on the local clock; raises
\* OverflowError when the local time falls before datetime.min.
Localize(dt, offset) == PlusTimedelta(dt, 0, offset)

-----------------------------------------------------------------------------
(* parse_relative_time_string *)

Digits == {"0", "1", "2", "3", "4", "5", "6", "7", "8", "9"}

IsDigit(c) == c \in Digits

IsSpace(c) == c \in {" "}

\* str.lower() on one character
LowerChar(c) ==
    CASE c = "M" -> "m"
      [] c = "O" -> "o"
      [] c = "W" -> "w"
      [] c = "D" -> "d"
      [] c = "H" -> "h"
      [] c = "X" -> "x"
      [] OTHER -> c

Lower(s) == [i \in 1..Len(s) |-> LowerChar(s[i])]

\* the first index >= i of s that does not hold a digit (greedy \d+)
RECURSIVE DigitsEnd(_, _)
DigitsEnd(s, i) == IF i <= Len(s) /\ IsDigit(s[i]) THEN DigitsEnd(s, i + 1) ELSE i

\* the first index >= i of s that does not hold whitespace (greedy \s*)
RECURSIVE SpaceEnd(_, _)
SpaceEnd(s, i) == IF i <= Len(s) /\ IsSpace(s[i]) THEN SpaceEnd(s, i + 1) ELSE i

NoUnit == [unit |-> "", end |-> 0]

\* A mutant of UnitAt: the alternation written (m|mo|w|d|h).
UnitAtMFirst(s, k) ==
    IF k > Len(s) THEN NoUnit
    ELSE IF s[k] = "m" THEN [unit |-> "m", end |-> k + 1]
    ELSE IF k + 1 <= Len(s) /\ s[k] = "m" /\ s[k + 1] = "o" THEN [unit |-> "mo", end |-> k + 2]
    ELSE IF s[k] \in {"w", "d", "h"} THEN [unit |-> s[k], end |-> k + 1]
    ELSE NoUnit

\* the alternation (mo|w|d|h|m) tried at index k, first alternative first
UnitAt(s, k) ==
    IF k > Len(s) THEN NoUnit
    ELSE IF k + 1 <= Len(s) /\ s[k] = "m" /\ s[k + 1] = "o" THEN [unit |-> "mo", end |-> k + 2]
    ELSE IF s[k] = "w" THEN [unit |-> "w", end |-> k + 1]
    ELSE IF s[k] = "d" THEN [unit |-> "d", end |-> k + 1]
    ELSE IF s[k] = "h" THEN [unit |-> "h", end |-> k + 1]
    ELSE IF s[k] = "m" THEN [unit |-> "m", end |-> k + 1]
    ELSE NoUnit

\* (\d+)\s*(mo|w|d|h|m) matched at index i.  Backtracking cannot rescue a
\* failed attempt: a shorter \d+ is followed by a digit and a shorter \s*
\* by whitespace, neither of which starts a unit.
MatchAt(s, i) ==
    IF ~IsDigit(s[i]) THEN [ok |-> FALSE, value |-> <<>>, unit |-> "", end |-> i]
    ELSE LET j == DigitsEnd(s, i)
             u == UnitAt(s, SpaceEnd(s, j))
         IN  IF u.unit = ""
             THEN [ok |-> FALSE, value |-> <<>>, unit |-> "", end |-> i]
             ELSE [ok |-> TRUE, value |-> SubSeq(s, i, j - 1), unit |-> u.unit, end |-> u.end]

\* re.findall from index i: leftmost match first, then on from its end
RECURSIVE FindAllFrom(_, _)
FindAllFrom(s, i) ==
    IF i > Len(s) THEN <<>>
    ELSE LET m == MatchAt(s, i)
         IN  IF m.ok
             THEN <<[value |-> m.value, unit |-> m.unit]>> \o FindAllFrom(s, m.end)
             ELSE FindAllFrom(s, i + 1)

\* re.findall(r'(\d+)\s*(mo|w|d|h|m)', time_str.lower())
FindAll(time_str) == FindAllFrom(Lower(time_str), 1)

DigitVal(c) == CHOOSE n \in 0..9 : <<"0", "1", "2", "3", "4", "5", "6", "7", "8", "9">>[n + 1] = c

\* int(value) for a string of decimal digits
RECURSIVE IntOf(_)
IntOf(ds) ==
    IF ds = <<>> THEN 0
    ELSE IntOf(SubSeq(ds, 1, Len(ds) - 1)) * 10 + DigitVal(ds[Len(ds)])

\* one pass of the loop body: now -= <the token's duration>
ApplyToken(now, tok) ==
    LET value == IntOf(tok.value)
    IN  CASE tok.unit = "mo" -> MinusMonths(now, value)
          [] tok.unit = "w"  -> PlusTimedelta(now, -(7 * value), 0)
          [] tok.unit = "d"  -> PlusTimedelta(now, -value, 0)
          [] tok.unit = "h"  -> PlusTimedelta(now, 0, -(60 * value))
          [] tok.unit = "m"  -> PlusTimedelta(now, 0, -value)
          [] OTHER           -> Returns(now)

\* A mutant of ApplyTokens: the tokens applied right to left.
RECURSIVE ApplyTokensReversed(_, _)
ApplyTokensReversed(now, toks) ==
    IF toks = <<>> THEN Returns(now)
    ELSE LET r == ApplyToken(now, toks[Len(toks)])
         IN  IF r.raised THEN r ELSE ApplyTokensReversed(r.value, SubSeq(toks, 1, Len(toks) - 1))

\* the for loop over the tokens, in the order found; an exception leaves it
RECURSIVE ApplyTokens(_, _)
ApplyTokens(now, toks) ==
    IF toks = <<>> THEN Returns(now)
    ELSE LET r == ApplyToken(now, Head(toks))
         IN  IF r.raised THEN r ELSE ApplyTokens(r.value, Tail(toks))

\* A mutant of parse_relative_time_string: a string without tokens is an error.
parse_rejecting_no_tokens(time_str, now) ==
    IF FindAll(time_str) = <<>> THEN Raises("ValueError")
    ELSE ApplyTokens(now, FindAll(time_str))

\* parse_relative_time_string(time_str) when datetime.now(timezone.utc) is now
parse_relative_time_string(time_str, now) == ApplyTokens(now, FindAll(time_str))

-----------------------------------------------------------------------------
(* The inputs of the model. *)

\* 2024-03-31 10:30 UTC: a 31st, in a leap year
Clock2024 == [y |-> 2024, mo |-> 3, d |-> 31, mi |-> 630]

\* 2023-03-31 00:00 UTC: a 31st, at midnight, in a common year
Clock2023 == [y |-> 2023, mo |-> 3, d |-> 31, mi |-> 0]

\* 2026-01-01 00:10 UTC: the first minutes of a year
Clock2026 == [y |-> 2026, mo |-> 1, d |-> 1, mi |-> 10]

\* "bogus" has no token
StrBogus == <<"b", "o", "g", "u", "s">>

\* "1mo"
Str1mo == <<"1", "m", "o">>

\* "9999999d" reaches back before datetime.min
StrTooFar == <<"9", "9", "9", "9", "9", "9", "9", "d">>

\* "738975d10h" before Clock2024 is 0001-01-01 00:30 UTC
StrYearOne == <<"7", "3", "8", "9", "7", "5", "d", "1", "0", "h">>

\* "99999mo" reaches back before year 1
StrMonthsTooFar == <<"9", "9", "9", "9", "9", "m", "o">>

\* "1w 2d"
Str1w2d == <<"1", "w", " ", "2", "d">>

\* "1mo1d"
Str1mo1d == <<"1", "m", "o", "1", "d">>

\* "1d1mo"
Str1d1mo == <<"1", "d", "1", "m", "o">>

\* "12 MO"
Str12MO == <<"1", "2", " ", "M", "O">>

\* "0d 0mo"
Str0d0mo == <<"0", "d", " ", "0", "m", "o">>

\* "since 1W please"
StrNoise == <<"s", "i", "n", "c", "e", " ", "1", "W", " ", "p", "l", "e", "a", "s", "e">>

\* "1mo 2w 3d 4h 30m", the example of the help text
StrHelp == <<"1", "m", "o", " ", "2", "w", " ", "3", "d", " ", "4", "h", " ", "3", "0", "m">>

\* "25h 1500m"
StrHoursMinutes == <<"2", "5", "h", " ", "1", "5", "0", "0", "m">>

Alphabet == {"1", "2", "m", "o", "M", "d", " ", "x"}

\* the time_str values of the direct calls of the parser: every string
\* over Alphabet up to MaxLen characters, and the longer ones above
ParseInputs ==
    UNION { [1..n -> Alphabet] : n \in 0..MaxLen }
        \cup {StrBogus, Str1mo, StrTooFar, StrYearOne, StrMonthsTooFar, Str1w2d, Str1mo1d, Str1d1mo,
              Str12MO, Str0d0mo, StrNoise, StrHelp, StrHoursMinutes}

\* what datetime.now(timezone.utc) may return in a direct call
ParseClocks == {Clock2024, Clock2023, Clock2026}

\* the --since values of the fetch runs
SinceInputs == {None, Some(<<>>), Some(StrBogus), Some(Str1mo), Some(StrTooFar), Some(StrYearOne)}

\* the --min-id and --limit values of the fetch runs: click's type=int
\* accepts any integer, and the default is None
OptionInputs ==
    { [min_id |-> None,     limit |-> None],
      [min_id |-> Some(-1), limit |-> Some(0)] }

\* what datetime.now(timezone.utc) may return in a fetch run
FetchClocks == {Clock2024}

\* local zones: UTC-05:00 and UTC+01:00
TzOffsets == {-300, 60}

MsgIds == {48, 50, 52}

\* msg.sender: absent (None), an object without a username attribute, a
\* user whose username is None, a user with a handle
Senders ==
    { [present |-> FALSE, has_username |-> FALSE, username |-> None],
      [present |-> TRUE,  has_username |-> FALSE, username |-> None],
      [present |-> TRUE,  has_username |-> TRUE,  username |-> None],
      [present |-> TRUE,  has_username |-> TRUE,  username |-> Some("alice")] }

\* what the collaborator hands to a callback; the body of a message is
\* opaque and stands for both msg.message and msg.raw_text
Messages == { [id |-> i, sender |-> s, message |-> <<"body", i>>] : i \in MsgIds, s \in Senders }

-----------------------------------------------------------------------------
(* The fetch command. *)

\* getattr(msg.sender, 'username', 'Unknown'): the default is used only
\* when the attribute lookup fails
Getattr_username(sender) ==
    IF sender.present /\ sender.has_username THEN sender.username ELSE Some("Unknown")

\* how an f-string renders an Optional str
Format(x) == IF x = None THEN "None" ELSE x[1]

Line(kind, id, from, text, date, minid) ==
    [kind |-> kind, id |-> id, from |-> from, text |-> text, date |-> date, min_id |-> minid]

\* A mutant of fetch_begin: the client constructed before --since is parsed.
fetch_begin_client_first ==
    /\ pc = "start"
    /\ \E now \in FetchClocks :
        LET r == IF Truthy(since) THEN parse_relative_time_string(since[1], now)
                 ELSE Returns(NoDate)
        IN  /\ clock' = (IF Truthy(since) THEN Some(now) ELSE None)
            /\ tg' = TRUE
            /\ IF r.raised
               THEN /\ pc' = "bad_parameter"
                    /\ exc' = Some([type |-> "BadParameter", value |-> since, cause |-> r.exc])
                    /\ UNCHANGED <<since_date, found_min_id, fetch_call>>
               ELSE /\ since_date' = (IF Truthy(since) THEN Some(r.value) ELSE None)
                    /\ found_min_id' = None
                    /\ fetch_call' = Some([chat_identifier |-> channel, min_id |-> min_id,
                                           limit |-> limit,
                                           since_date |-> since_date'])
                    /\ pc' = "fetching"
                    /\ exc' = None
    /\ UNCHANGED <<channel, min_id, limit, since, verbose, tz, delivered, out>>

\* fetch, from its entry to the call of tg.fetch_messages: --since is
\* resolved, a failure becomes click.BadParameter and ends the command;
\* otherwise the client is constructed and the fetch invoked.
fetch_begin ==
    /\ pc = "start"
    /\ \E now \in FetchClocks :
        LET r == IF Truthy(since) THEN parse_relative_time_string(since[1], now)
                 ELSE Returns(NoDate)
        IN  /\ clock' = (IF Truthy(since) THEN Some(now) ELSE None)
            /\ IF r.raised
               THEN /\ pc' = "bad_parameter"
                    /\ exc' = Some([type |-> "BadParameter", value |-> since, cause |-> r.exc])
                    /\ UNCHANGED <<since_date, tg, found_min_id, fetch_call>>
               ELSE /\ since_date' = (IF Truthy(since) THEN Some(r.value) ELSE None)
                    /\ tg' = TRUE
                    /\ found_min_id' = None
                    /\ fetch_call' = Some([chat_identifier |-> channel, min_id |-> min_id,
                                           limit |-> limit,
                                           since_date |-> since_date'])
                    /\ pc' = "fetching"
                    /\ exc' = None
    /\ UNCHANGED <<channel, min_id, limit, since, verbose, tz, delivered, out>>

\* A mutant of message_processor: the last identifier seen is kept.
message_processor_keeps_last(msg) ==
    /\ pc = "fetching"
    /\ Len(delivered) < MaxDeliveries
    /\ out' = Append(out,
                IF verbose
                THEN Line("message_verbose", Some(msg.id),
                          <<"@", Format(Getattr_username(msg.sender))>>, msg.message, NoDate, None)
                ELSE Line("message", None, <<>>, msg.message, NoDate, None))
    /\ found_min_id' = Some(msg.id)
    /\ delivered' = Append(delivered, [callback |-> "message_processor", id |-> msg.id])
    /\ UNCHANGED <<pc, channel, min_id, limit, since, verbose, clock, tz, since_date,
                   tg, fetch_call, exc>>

\* the per-message callback: one line printed, found_min_id[0] lowered
message_processor(msg) ==
    /\ pc = "fetching"
    /\ Len(delivered) < MaxDeliveries
    /\ out' = Append(out,
                IF verbose
                THEN Line("message_verbose", Some(msg.id),
                          <<"@", Format(Getattr_username(msg.sender))>>, msg.message, NoDate, None)
                ELSE Line("message", None, <<>>, msg.message, NoDate, None))
    /\ found_min_id' = (IF found_min_id = None \/ msg.id < found_min_id[1]
                        THEN Some(msg.id) ELSE found_min_id)
    /\ delivered' = Append(delivered, [callback |-> "message_processor", id |-> msg.id])
    /\ UNCHANGED <<pc, channel, min_id, limit, since, verbose, clock, tz, since_date,
                   tg, fetch_call, exc>>

\* A mutant of error_handler: the error is raised, which ends the fetch.
error_handler_raises(msg) ==
    /\ pc = "fetching"
    /\ Len(delivered) < MaxDeliveries
    /\ out' = Append(out, Line("error", Some(msg.id), <<>>, <<>>, NoDate, None))
    /\ delivered' = Append(delivered, [callback |-> "error_handler", id |-> msg.id])
    /\ pc' = "crashed"
    /\ exc' = Some([type |-> "RuntimeError", value |-> None, cause |-> ""])
    /\ UNCHANGED <<channel, min_id, limit, since, verbose, clock, tz, since_date,
                   tg, found_min_id, fetch_call>>

\* the error callback: one diagnostic line, nothing else
error_handler(msg) ==
    /\ pc = "fetching"
    /\ Len(delivered) < MaxDeliveries
    /\ out' = Append(out, Line("error", Some(msg.id), <<>>, <<>>, NoDate, None))
    /\ delivered' = Append(delivered, [callback |-> "error_handler", id |-> msg.id])
    /\ UNCHANGED <<pc, channel, min_id, limit, since, verbose, clock, tz, since_date,
                   tg, found_min_id, fetch_call, exc>>

\* A mutant of fetch_end: the summary printed whenever --verbose is given.
fetch_end_verbose_only ==
    /\ pc = "fetching"
    /\ IF verbose
       THEN \E offset \in TzOffsets :
            LET local == Localize(IF since_date = None THEN Clock2024 ELSE since_date[1], offset)
            IN  /\ tz' = Some(offset)
                /\ IF local.raised
                   THEN /\ pc' = "crashed"
                        /\ exc' = Some([type |-> local.exc, value |-> None, cause |-> ""])
                        /\ out' = out
                   ELSE /\ pc' = "done"
                        /\ out' = Append(out, Line("summary", None, <<>>, <<>>, local.value, found_min_id))
                        /\ exc' = exc
       ELSE /\ pc' = "done"
            /\ UNCHANGED <<out, exc, tz>>
    /\ UNCHANGED <<channel, min_id, limit, since, verbose, clock, since_date,
                   tg, found_min_id, fetch_call, delivered>>

\* fetch, from the return of tg.fetch_messages to its end: the summary
\* line, whose timestamp is since_date on the local clock (astimezone
\* reads the local zone)
fetch_end ==
    /\ pc = "fetching"
    /\ IF Truthy(since) /\ verbose
       THEN \E offset \in TzOffsets :
            LET local == Localize(since_date[1], offset)
            IN  /\ tz' = Some(offset)
                /\ IF local.raised
                   THEN /\ pc' = "crashed"
                        /\ exc' = Some([type |-> local.exc, value |-> None, cause |-> ""])
                        /\ out' = out
                   ELSE /\ pc' = "done"
                        /\ out' = Append(out, Line("summary", None, <<>>, <<>>, local.value, found_min_id))
                        /\ exc' = exc
       ELSE /\ pc' = "done"
            /\ UNCHANGED <<out, exc, tz>>
    /\ UNCHANGED <<channel, min_id, limit, since, verbose, clock, since_date,
                   tg, found_min_id, fetch_call, delivered>>

\* tg.fetch_messages raises (network, authorisation, rate limit): nothing
\* in fetch catches it
fetch_messages_raises ==
    /\ pc = "fetching"
    /\ pc' = "crashed"
    /\ exc' = Some([type |-> "CollaboratorFailure", value |-> None, cause |-> ""])
    /\ UNCHANGED <<channel, min_id, limit, since, verbose, clock, tz, since_date,
                   tg, found_min_id, fetch_call, delivered, out>>

\* a direct call of parse_relative_time_string(time_str); the argument is
\* held in since, the result in since_date or exc
parse_call ==
    /\ pc = "parse_call"
    /\ \E now \in ParseClocks :
        LET r == parse_relative_time_string(since[1], now)
        IN  /\ clock' = Some(now)
            /\ IF r.raised
               THEN /\ pc' = "parse_raised"
                    /\ exc' = Some([type |-> r.exc, value |-> None, cause |-> ""])
                    /\ since_date' = since_date
               ELSE /\ pc' = "parse_returned"
                    /\ since_date' = Some(r.value)
                    /\ exc' = exc
    /\ UNCHANGED <<channel, min_id, limit, since, verbose, tz, tg, found_min_id,
                   fetch_call, delivered, out>>

\* the state before a direct call of the parser
InitParse ==
    /\ pc = "parse_call"
    /\ channel = ""
    /\ min_id = None
    /\ limit = None
    /\ since \in { Some(t) : t \in ParseInputs }
    /\ verbose = FALSE
    /\ tz = None
    /\ clock = None
    /\ since_date = None
    /\ tg = FALSE
    /\ found_min_id = None
    /\ fetch_call = None
    /\ delivered = <<>>
    /\ out = <<>>
    /\ exc = None

\* the state as the fetch command is entered with its parsed options
InitFetch ==
    /\ pc = "start"
    /\ channel = "@example"
    /\ \E o \in OptionInputs : min_id = o.min_id /\ limit = o.limit
    /\ since \in SinceInputs
    /\ verbose \in BOOLEAN
    /\ tz = None
    /\ clock = None
    /\ since_date = None
    /\ tg = FALSE
    /\ found_min_id = None
    /\ fetch_call = None
    /\ delivered = <<>>
    /\ out = <<>>
    /\ exc = None

Init == InitFetch \/ InitParse

Next ==
    \/ parse_call
    \/ fetch_begin
    \/ \E msg \in Messages : message_processor(msg)
    \/ \E msg \in Messages : error_handler(msg)
    \/ fetch_end
    \/ fetch_messages_raises

Spec == Init /\ [][Next]_vars

\* the direct calls of the parser alone
ParseSpec == InitParse /\ [][parse_call]_vars

-----------------------------------------------------------------------------
(* Vocabulary of the properties. *)

\* the command is past the call of tg.fetch_messages
FetchInvoked == pc \in {"fetching", "done", "crashed"}

\* the identifiers handed to the per-message callback among the first n callbacks
ProcessedIds(n) ==
    { delivered[i].id : i \in { j \in 1..n : delivered[j].callback = "message_processor" } }

MinOf(S) == CHOOSE m \in S : \A x \in S : m <= x

SummaryCount == Cardinality({ i \in 1..Len(out) : out[i].kind = "summary" })

\* the tokens of the string held in since
TokensOfSince == FindAll(since[1])

\* a direct call of the parser has ended
ParseEnded == pc \in {"parse_returned", "parse_raised"}

-----------------------------------------------------------------------------
(* C1: at every state of a fetch session the minimum-observed identifier   *)
(* is the smallest identifier handed to the per-message callback so far,   *)
(* whatever the order of delivery and whatever error callbacks came in     *)
(* between, and it is None exactly when the per-message callback has not   *)
(* run; the fetch loop's end does not change it.                           *)
C1_MinObservedId ==
    FetchInvoked =>
        LET ids == ProcessedIds(Len(delivered))
        IN  /\ (found_min_id = None) <=> (ids = {})
            /\ ids /= {} => found_min_id = Some(MinOf(ids))

\* the session of the end-to-end example: 50, 48, 52 delivered, 48 reported
C1_Witness ==
    /\ pc = "done"
    /\ delivered = << [callback |-> "message_processor", id |-> 50],
                      [callback |-> "message_processor", id |-> 48],
                      [callback |-> "message_processor", id |-> 52] >>
    /\ found_min_id = Some(48)

(* C2: when --since is given and resolving it raises, the command ends in  *)
(* click.BadParameter carrying the --since string and the cause, and the   *)
(* client is not constructed, the fetch not invoked, no callback run and   *)
(* nothing printed.                                                        *)
C2_SinceFailureAborts ==
    (pc \in {"bad_parameter", "fetching", "done", "crashed"} /\ Truthy(since)
        /\ parse_relative_time_string(since[1], clock[1]).raised)
    => /\ pc = "bad_parameter"
       /\ exc /= None
       /\ exc[1].type = "BadParameter"
       /\ exc[1].value = since
       /\ exc[1].cause \in {"OverflowError", "ValueError"}
       /\ tg = FALSE
       /\ fetch_call = None
       /\ delivered = <<>>
       /\ out = <<>>

\* --since "9999999d" has been rejected
C2_Witness ==
    /\ pc = "bad_parameter"
    /\ since = Some(StrTooFar)
    /\ exc = Some([type |-> "BadParameter", value |-> Some(StrTooFar), cause |-> "OverflowError"])
    /\ tg = FALSE

(* C3: an error callback prints exactly one diagnostic line, naming the    *)
(* failing message, and does nothing else: the lines printed follow the    *)
(* callbacks one for one, so a message delivered after an error is still   *)
(* printed, and no session that saw an error callback ends other than by   *)
(* the normal end of the fetch or by a failure of the collaborator or of   *)
(* the summary line.                                                       *)
C3_ErrorCallbackIsolated ==
    FetchInvoked =>
        /\ Len(out) = Len(delivered) + SummaryCount
        /\ \A i \in 1..Len(delivered) :
            IF delivered[i].callback = "error_handler"
            THEN out[i] = Line("error", Some(delivered[i].id), <<>>, <<>>, NoDate, None)
            ELSE /\ out[i].kind \in {"message", "message_verbose"}
                 /\ out[i].text = <<"body", delivered[i].id>>
        /\ (pc = "crashed" =>
                exc /= None /\ exc[1].type \in {"CollaboratorFailure", "OverflowError"})

\* an error for 50, then message 48 handled, then the normal end
C3_Witness ==
    /\ pc = "done"
    /\ Len(delivered) = 2
    /\ delivered[1] = [callback |-> "error_handler", id |-> 50]
    /\ delivered[2] = [callback |-> "message_processor", id |-> 48]
    /\ out[1].kind = "error"
    /\ out[2].kind \in {"message", "message_verbose"}
    /\ found_min_id = Some(48)

\* the parts of C4 that do not depend on what "given" means: at most one
\* summary line, the last line, printed by the end of the command after
\* every callback, showing the since-timestamp passed to the collaborator
\* (on the local clock) and the final minimum-observed identifier
SummaryShape ==
    /\ SummaryCount <= 1
    /\ pc /= "done" => SummaryCount = 0
    /\ \A i \in 1..Len(out) :
        out[i].kind = "summary" =>
            /\ i = Len(out)
            /\ i = Len(delivered) + 1
            /\ out[i].min_id = found_min_id
            /\ fetch_call /= None /\ fetch_call[1].since_date /= None /\ tz /= None
            /\ PlusTimedelta(out[i].date, 0, -tz[1]) = Returns(fetch_call[1].since_date[1])

(* C4, as claimed: a fetch that runs to its end prints the summary line if *)
(* and only if --since and --verbose were both given.                      *)
C4_AsClaimed ==
    /\ SummaryShape
    /\ pc = "done" => (SummaryCount = 1 <=> (since /= None /\ verbose))

(* C4, amended: a fetch that runs to its end prints the summary line if    *)
(* and only if --verbose was given and --since was given a non-empty       *)
(* string; it is printed once, last, after every callback, and shows the   *)
(* since-timestamp passed to the collaborator and the final minimum.       *)
C4_SummaryLine ==
    /\ SummaryShape
    /\ pc = "done" => (SummaryCount = 1 <=> (Truthy(since) /\ verbose))

\* a verbose fetch --since 1mo that printed two messages and the summary
C4_Witness ==
    /\ pc = "done"
    /\ since = Some(Str1mo)
    /\ verbose
    /\ Len(delivered) = 2
    /\ Len(out) = 3
    /\ out[3].kind = "summary"
    /\ out[3].min_id = Some(48)
    /\ tz = Some(60)
    /\ out[3].date = [y |-> 2024, mo |-> 2, d |-> 29, mi |-> 690]

\* the parser half of C5: a string without tokens resolves to the current
\* instant and does not raise
NoTokenParse ==
    (ParseEnded /\ TokensOfSince = <<>>) => (pc = "parse_returned" /\ since_date = clock)

(* C5, as claimed: a string without tokens (the empty string included)     *)
(* parses to the current instant without an error, and fetch with such a   *)
(* --since raises no parameter error and passes 'now' to the collaborator. *)
C5_AsClaimed ==
    /\ NoTokenParse
    /\ (pc \in {"bad_parameter", "fetching", "done", "crashed"} /\ since /= None
            /\ TokensOfSince = <<>>)
       => /\ FetchInvoked
          /\ clock /= None
          /\ fetch_call = Some([chat_identifier |-> channel, min_id |-> min_id,
                                limit |-> limit, since_date |-> clock])

(* C5, amended: a string without tokens (the empty string included) parses *)
(* to the current instant without an error; fetch with a non-empty --since *)
(* without tokens raises no parameter error and passes 'now' to the        *)
(* collaborator, and fetch with an empty --since passes no since-timestamp.*)
C5_NoTokenSince ==
    /\ NoTokenParse
    /\ (pc \in {"bad_parameter", "fetching", "done", "crashed"} /\ since /= None
            /\ TokensOfSince = <<>>)
       => /\ FetchInvoked
          /\ fetch_call = Some([chat_identifier |-> channel, min_id |-> min_id,
                                limit |-> limit,
                                since_date |-> IF since = Some(<<>>) THEN None ELSE clock])
          /\ since /= Some(<<>>) => clock \in { Some(c) : c \in FetchClocks }

\* fetch --since bogus reached the collaborator with since_date = now
C5_Witness ==
    /\ pc = "fetching"
    /\ since = Some(StrBogus)
    /\ clock = Some(Clock2024)
    /\ fetch_call /= None
    /\ fetch_call[1].since_date = Some(Clock2024)

-----------------------------------------------------------------------------
(* Vocabulary of the parser properties. *)

\* time_str is digits, then spaces, then "mo" in any letter case: the
\* index of the last digit and of the last space before the unit
NmoShape(t, j, k) ==
    /\ 1 <= j /\ j <= k /\ Len(t) = k + 2
    /\ \A i \in 1..j : IsDigit(t[i])
    /\ \A i \in (j + 1)..k : t[i] = " "
    /\ t[k + 1] \in {"m", "M"}
    /\ t[k + 2] \in {"o", "O"}

IsNmo(t) == \E j \in 1..Len(t) : \E k \in j..Len(t) : NmoShape(t, j, k)

\* the magnitude of a string of the shape Nmo
MagnitudeOfNmo(t) == IntOf(SubSeq(t, 1, CHOOSE j \in 1..Len(t) : \E k \in j..Len(t) : NmoShape(t, j, k)))

\* months since year 0 of a datetime
MonthIndex(dt) == dt.y * 12 + (dt.mo - 1)

\* minutes of a datetime since the midnight that began 0001-01-01, as a
\* pair <<days, minute of the day>>
Instant(dt) == <<ToOrdinal(dt) - 1, dt.mi>>

\* the pair <<days, minutes>> with the minutes brought into 0..1439
Normal(days, minutes) == <<days + minutes \div 1440, minutes % 1440>>

\* what the claim says one token does to an instant: the datetime it
\* leads to, or NoDate when that lies before year 1
RefToken(dt, tok) ==
    LET v == IntOf(tok.value)
    IN  IF tok.unit = "mo"
        THEN LET k  == MonthIndex(dt) - v
                 yy == k \div 12
                 mm == (k % 12) + 1
             IN  IF yy < 1 THEN NoDate
                 ELSE [y |-> yy, mo |-> mm, mi |-> dt.mi,
                       d |-> IF dt.d <= DaysInMonth(yy, mm) THEN dt.d ELSE DaysInMonth(yy, mm)]
        ELSE LET days    == CASE tok.unit = "w" -> 7 * v [] tok.unit = "d" -> v [] OTHER -> 0
                 minutes == CASE tok.unit = "h" -> 60 * v [] tok.unit = "m" -> v [] OTHER -> 0
                 n       == Normal(ToOrdinal(dt) - 1 - days, dt.mi - minutes)
             IN  IF n[1] < 0 THEN NoDate
                 ELSE LET date == FromOrdinal(n[1] + 1)
                      IN  [y |-> date.y, mo |-> date.mo, d |-> date.d, mi |-> n[2]]

\* the tokens applied once each, left to right; NoDate once out of range
RECURSIVE RefFold(_, _)
RefFold(dt, toks) ==
    IF toks = <<>> \/ dt = NoDate THEN dt
    ELSE RefFold(RefToken(dt, Head(toks)), Tail(toks))

\* the days and the minutes of the week, day, hour and minute tokens, summed
RECURSIVE FixedDays(_)
FixedDays(toks) ==
    IF toks = <<>> THEN 0
    ELSE FixedDays(Tail(toks))
         + (CASE Head(toks).unit = "w" -> 7 * IntOf(Head(toks).value)
              [] Head(toks).unit = "d" -> IntOf(Head(toks).value)
              [] OTHER -> 0)

RECURSIVE FixedMinutes(_)
FixedMinutes(toks) ==
    IF toks = <<>> THEN 0
    ELSE FixedMinutes(Tail(toks))
         + (CASE Head(toks).unit = "h" -> 60 * IntOf(Head(toks).value)
              [] Head(toks).unit = "m" -> IntOf(Head(toks).value)
              [] OTHER -> 0)

HasMonthToken(toks) == \E i \in 1..Len(toks) : toks[i].unit = "mo"

Reverse(toks) == [i \in 1..Len(toks) |-> toks[Len(toks) + 1 - i]]

-----------------------------------------------------------------------------
(* C6: a string Nmo (digits, optional spaces, "mo" in any letter case)     *)
(* yields the single token (N, month), never a minute token, and when the  *)
(* parser returns it has gone back N calendar months: the month of the     *)
(* result is N months before the month of 'now'.                           *)
C6_MonthBeforeMinute ==
    (ParseEnded /\ IsNmo(since[1])) =>
        /\ Len(TokensOfSince) = 1
        /\ TokensOfSince[1].unit = "mo"
        /\ IntOf(TokensOfSince[1].value) = MagnitudeOfNmo(since[1])
        /\ pc = "parse_returned" =>
              MonthIndex(since_date[1]) = MonthIndex(clock[1]) - MagnitudeOfNmo(since[1])

\* "12 MO" at 2024-03-31 10:30 gave 2023-03-31 10:30
C6_Witness ==
    /\ pc = "parse_returned"
    /\ since = Some(Str12MO)
    /\ clock = Some(Clock2024)
    /\ since_date = Some([y |-> 2023, mo |-> 3, d |-> 31, mi |-> 630])

(* C7: the parser applies every token once, left to right, each as a       *)
(* subtraction from the running instant (a week as 7 days, months by the   *)
(* calendar), and raises exactly when that leaves the range of datetime;   *)
(* without a month token the result is 'now' less the sum of the tokens,   *)
(* so the order of the tokens does not matter and tokens of magnitude 0    *)
(* change nothing.                                                         *)
C7_TokensLeftToRight ==
    ParseEnded =>
        LET toks == TokensOfSince
            ref  == RefFold(clock[1], toks)
        IN  /\ (pc = "parse_raised") <=> (ref = NoDate)
            /\ pc = "parse_returned" =>
                /\ since_date = Some(ref)
                /\ ~HasMonthToken(toks) =>
                    /\ Instant(since_date[1]) =
                         Normal(ToOrdinal(clock[1]) - 1 - FixedDays(toks),
                                clock[1].mi - FixedMinutes(toks))
                    /\ RefFold(clock[1], Reverse(toks)) = ref
                /\ (\A i \in 1..Len(toks) : IntOf(toks[i].value) = 0) => since_date = clock

\* "1mo1d" at 2024-03-31 10:30 gave 2024-02-28 10:30, where the same
\* tokens in the other order give 2024-02-29 10:30
C7_Witness ==
    /\ pc = "parse_returned"
    /\ since = Some(Str1mo1d)
    /\ clock = Some(Clock2024)
    /\ since_date = Some([y |-> 2024, mo |-> 2, d |-> 28, mi |-> 630])
    /\ RefFold(Clock2024, Reverse(TokensOfSince)) = [y |-> 2024, mo |-> 2, d |-> 29, mi |-> 630]

(* C8: a string whose only token is N months lands, when the parser        *)
(* returns, in the month N months back on the day of the month of 'now'    *)
(* if that month has it and on its last day otherwise, at the time of day  *)
(* of 'now'.                                                               *)
C8_MonthEndClamp ==
    (pc = "parse_returned" /\ Len(TokensOfSince) = 1 /\ TokensOfSince[1].unit = "mo") =>
        LET r   == since_date[1]
            now == clock[1]
        IN  /\ MonthIndex(r) = MonthIndex(now) - IntOf(TokensOfSince[1].value)
            /\ r.mi = now.mi
            /\ r.d = (IF now.d <= DaysInMonth(r.y, r.mo) THEN now.d ELSE DaysInMonth(r.y, r.mo))

\* "1mo" at 2023-03-31 00:00 gave 2023-02-28 00:00
C8_Witness ==
    /\ pc = "parse_returned"
    /\ since = Some(Str1mo)
    /\ clock = Some(Clock2023)
    /\ since_date = Some([y |-> 2023, mo |-> 2, d |-> 28, mi |-> 0])

\* what the claim has the From field be: '@' and the handle, or the
\* placeholder when the message has no sender or the sender no username
ExpectedFrom(sender) ==
    IF sender.present /\ sender.has_username /\ sender.username /= None
    THEN <<"@", sender.username[1]>>
    ELSE <<"@", "Unknown">>

(* C9: every line a verbose fetch prints for a message has the From field  *)
(* '@' followed by the sender's handle, or '@Unknown' when the message has *)
(* no sender or the sender has no username.                                *)
C9_FromField ==
    [][ \A msg \in Messages :
            (verbose /\ message_processor(msg)) => out'[Len(out')].from = ExpectedFrom(msg.sender)
      ]_vars

(* C10: whenever the collaborator's fetch is invoked, min_id is unset or   *)
(* an integer >= 0 and limit is unset or an integer > 0.                   *)
C10_OptionsValidated ==
    fetch_call /= None =>
        /\ fetch_call[1].min_id = None \/ fetch_call[1].min_id[1] >= 0
        /\ fetch_call[1].limit = None \/ fetch_call[1].limit[1] > 0

====
